---------------------------- MODULE Spec2Model ----------------------------
(***************************************************************************)
(* A model of demo_debugpy.py: a script that opens a debugpy listener,     *)
(* waits for an IDE to attach and then runs nine demonstration sections,   *)
(* each closed by a "press Enter" pause.                                   *)
(*                                                                         *)
(* The main flow is one process whose position is (sec, pc); the three     *)
(* worker threads of section 8 are processes of their own.  The presenter  *)
(* (Enter key, the IDE's attach and "continue" buttons) is the             *)
(* environment.  Standard output is recorded per writing thread: `out`     *)
(* holds the lines of the main flow and wout[w] those of worker w.         *)
(*                                                                         *)
(* Python floats are IEEE 754 binary64 values.  They are modelled exactly, *)
(* as m * 2^e with a 53 bit significand m, and every arithmetic operation  *)
(* rounds to nearest, ties to even, as the hardware does.  TLC's integers  *)
(* are 32 bits wide, so significands are held as sequences of 15 bit       *)
(* limbs, least significant first.  Only the values the script can produce *)
(* are covered: finite, non-negative, normal numbers.                      *)
(***************************************************************************)
EXTENDS Integers, Sequences, FiniteSets, TLC

\* ------------------------------------------------------------------------
\* Natural numbers of any size: sequences of limbs, least significant first,
\* no leading zero limb; <<>> is zero.
\* ------------------------------------------------------------------------

LimbBits == 15

Base == 2 ^ LimbBits

\* The element of a one-element set.  An operator below that uses an
\* argument more than once binds it in a set constructor, Force({.. : x \in
\* {a}}): TLC then evaluates the argument once, where it would otherwise
\* evaluate it again at each use when it computes ENABLED.
Force(S) == CHOOSE r \in S : TRUE

RECURSIVE BNorm(_)
BNorm(a) ==
    Force({ IF x = <<>> THEN x
            ELSE IF x[Len(x)] = 0 THEN BNorm(SubSeq(x, 1, Len(x) - 1))
            ELSE x : x \in {a} })

RECURSIVE BFromInt(_)
BFromInt(n) ==
    IF n = 0 THEN <<>> ELSE <<n % Base>> \o BFromInt(n \div Base)

RECURSIVE BToInt(_)
BToInt(a) ==
    Force({ IF x = <<>> THEN 0 ELSE x[1] + Base * BToInt(Tail(x)) : x \in {a} })

BLimb(a, i) == IF i <= Len(a) THEN a[i] ELSE 0

RECURSIVE BAddC(_, _, _, _)
BAddC(a, b, i, c) ==
    IF i > Len(a) /\ i > Len(b)
    THEN IF c = 0 THEN <<>> ELSE <<c>>
    ELSE Force({ <<s % Base>> \o BAddC(a, b, i + 1, s \div Base) :
                 s \in {BLimb(a, i) + BLimb(b, i) + c} })

BAdd(a, b) == Force({ BAddC(x, y, 1, 0) : x \in {a}, y \in {b} })

RECURSIVE BSubC(_, _, _, _)
BSubC(a, b, i, br) ==
    IF i > Len(a) THEN <<>>
    ELSE Force({ IF d < 0
                 THEN <<d + Base>> \o BSubC(a, b, i + 1, 1)
                 ELSE <<d>> \o BSubC(a, b, i + 1, 0) :
                 d \in {BLimb(a, i) - BLimb(b, i) - br} })

\* a - b, for a >= b
BSub(a, b) == Force({ BNorm(BSubC(x, y, 1, 0)) : x \in {a}, y \in {b} })

RECURSIVE BCmpAt(_, _, _)
BCmpAt(a, b, i) ==
    IF i = 0 THEN 0
    ELSE IF a[i] > b[i] THEN 1
    ELSE IF a[i] < b[i] THEN -1
    ELSE BCmpAt(a, b, i - 1)

\* -1, 0, 1 as a < b, a = b, a > b
BCmp(a, b) ==
    Force({ IF Len(x) > Len(y) THEN 1
            ELSE IF Len(x) < Len(y) THEN -1
            ELSE BCmpAt(x, y, Len(x)) : x \in {a}, y \in {b} })

RECURSIVE BMulSmallC(_, _, _, _)
BMulSmallC(a, d, i, c) ==
    IF i > Len(a)
    THEN IF c = 0 THEN <<>> ELSE <<c>>
    ELSE Force({ <<p % Base>> \o BMulSmallC(a, d, i + 1, p \div Base) :
                 p \in {a[i] * d + c} })

\* a * d, for 0 <= d <= Base
BMulSmall(a, d) ==
    Force({ IF k = 0 THEN <<>> ELSE BNorm(BMulSmallC(x, k, 1, 0)) :
            x \in {a}, k \in {d} })

BShiftLimb(a) == Force({ IF x = <<>> THEN x ELSE <<0>> \o x : x \in {a} })

RECURSIVE BMul(_, _)
BMul(a, b) ==
    Force({ IF y = <<>> THEN <<>>
            ELSE BAdd(BMulSmall(x, y[1]), BShiftLimb(BMul(x, Tail(y)))) :
            x \in {a}, y \in {b} })

RECURSIVE BDivR(_, _, _, _)
BDivR(a, d, i, r) ==
    IF i = 0 THEN [q |-> <<>>, r |-> r]
    ELSE Force({ [q |-> Append(rest.q, cur \div d), r |-> rest.r] :
                 cur \in {r * Base + a[i]},
                 rest \in {BDivR(a, d, i - 1, (r * Base + a[i]) % d)} })

\* quotient and remainder of a by d, for 0 < d <= Base
BDivSmall(a, d) ==
    Force({ [q |-> BNorm(qr.q), r |-> qr.r] :
            qr \in { BDivR(x, k, Len(x), 0) : x \in {a}, k \in {d} } })

RECURSIVE BZeros(_)
BZeros(n) == IF n = 0 THEN <<>> ELSE <<0>> \o BZeros(n - 1)

\* a * 2^k
BShl(a, k) ==
    Force({ IF x = <<>> THEN x
            ELSE BZeros(n \div LimbBits) \o BMulSmall(x, 2 ^ (n % LimbBits)) :
            x \in {a}, n \in {k} })

\* floor(a / 2^k)
BShr(a, k) ==
    Force({ IF n \div LimbBits >= Len(x) THEN <<>>
            ELSE BDivSmall(SubSeq(x, n \div LimbBits + 1, Len(x)),
                           2 ^ (n % LimbBits)).q :
            x \in {a}, n \in {k} })

RECURSIVE SmallBitLen(_)
SmallBitLen(n) == IF n = 0 THEN 0 ELSE 1 + SmallBitLen(n \div 2)

BBitLen(a) ==
    Force({ IF x = <<>> THEN 0
            ELSE LimbBits * (Len(x) - 1) + SmallBitLen(x[Len(x)]) : x \in {a} })

BOdd(a) == Force({ x # <<>> /\ x[1] % 2 = 1 : x \in {a} })

\* a / 2^k rounded to the nearest integer, ties to even
BShrRound(a, k) ==
    Force({ IF n = 0 THEN x
            ELSE Force({ IF c > 0 \/ (c = 0 /\ BOdd(q)) THEN BAdd(q, <<1>>) ELSE q :
                         q \in {BShr(x, n)},
                         c \in {BCmp(BSub(x, BShl(BShr(x, n), n)),
                                     BShl(<<1>>, n - 1))} }) :
            x \in {a}, n \in {k} })

\* ------------------------------------------------------------------------
\* binary64: [m, e] stands for m * 2^e; m is zero or has exactly 53 bits.
\* ------------------------------------------------------------------------

Precision == 53

FZero == [m |-> <<>>, e |-> 0]

\* the double nearest to n * 2^e, for n of more than Precision bits, L of them
FRoundLong(n, e, L) ==
    Force({ IF BBitLen(q) > Precision
            THEN [m |-> BShr(q, 1), e |-> e + (L - Precision) + 1]
            ELSE [m |-> q, e |-> e + (L - Precision)] :
            q \in {BShrRound(n, L - Precision)} })

\* the double nearest to m * 2^e (ties to even)
FRound(m, e) ==
    Force({ IF n = <<>> THEN FZero
            ELSE IF L <= Precision
            THEN [m |-> BShl(n, Precision - L), e |-> e - (Precision - L)]
            ELSE FRoundLong(n, e, L) :
            n \in {m}, L \in {BBitLen(m)} })

\* float(n) for an int n >= 0
FFromInt(n) == FRound(BFromInt(n), 0)

GuardBits == 75

\* the double nearest to the quotient of m * 2^e by d (0 < d <= Base): the
\* quotient is carried to GuardBits further bits and a sticky bit
FDivBig(m, e, d) ==
    Force({ FRound(BAdd(BShl(qr.q, 1), IF qr.r = 0 THEN <<>> ELSE <<1>>),
                   e - GuardBits - 1) :
            qr \in {BDivSmall(BShl(m, GuardBits), d)} })

\* n / d for ints (Python's true division); also a decimal literal n/d
FDivInt(n, d) == FDivBig(BFromInt(n), 0, d)

\* x / d for a float x and an int d
FDivSmall(x, d) == Force({ FDivBig(u.m, u.e, d) : u \in {x} })

FMul(x, y) ==
    Force({ FRound(BMul(u.m, v.m), u.e + v.e) : u \in {x}, v \in {y} })

\* the significand of x at exponent e <= x.e
FAlign(x, e) == BShl(x.m, x.e - e)

FMinE(x, y) ==
    IF x.m = <<>> THEN y.e
    ELSE IF y.m = <<>> THEN x.e
    ELSE IF x.e < y.e THEN x.e ELSE y.e

FAdd(x, y) ==
    Force({ Force({ FRound(BAdd(FAlign(u, e), FAlign(v, e)), e) : e \in {FMinE(u, v)} }) :
            u \in {x}, v \in {y} })

\* x - y, for x >= y
FSub(x, y) ==
    Force({ Force({ FRound(BSub(FAlign(u, e), FAlign(v, e)), e) : e \in {FMinE(u, v)} }) :
            u \in {x}, v \in {y} })

\* -1, 0, 1 as x < y, x = y, x > y
FCmp(x, y) ==
    Force({ Force({ BCmp(FAlign(u, e), FAlign(v, e)) : e \in {FMinE(u, v)} }) :
            u \in {x}, v \in {y} })

FGt(x, y) == FCmp(x, y) > 0

\* min(x, y): y if y < x, else x
FMin(x, y) == Force({ IF FCmp(v, u) < 0 THEN v ELSE u : u \in {x}, v \in {y} })

\* x * s rounded to the nearest integer, ties to even, for an int s <= Base:
\* the digits of a fixed-point format of the exact binary value
FScaled(x, s) ==
    Force({ BToInt(IF u.e >= 0
                   THEN BShl(BMulSmall(u.m, s), u.e)
                   ELSE BShrRound(BMulSmall(u.m, s), -u.e)) : u \in {x} })

\* the digits of format(x, ".2f") and of round(x, 2)
Hundredths(x) == FScaled(x, 100)

\* the digits of format(x, ".1f")
Tenths(x) == FScaled(x, 10)

\* a rounding of ties away from zero, where round() takes the even neighbour
PyRound2HalfUp(x) ==
    Force({ FDivInt(BToInt(IF u.e >= 0
                           THEN BShl(BMulSmall(u.m, 100), u.e)
                           ELSE BShr(BAdd(BMulSmall(u.m, 200), BShl(<<1>>, -u.e)),
                                     1 - u.e)), 100) : u \in {x} })

\* round(x, 2): the double nearest to the rounded decimal
PyRound2(x) == FDivInt(Hundredths(x), 100)

\* the float a decimal literal with two places denotes, from its hundredths
Dec2(h) == FDivInt(h, 100)

\* ------------------------------------------------------------------------
\* The script's literal data
\* ------------------------------------------------------------------------

ListenHost == "0.0.0.0"

ListenPort == 5678

LastSection == 9

Scores == <<85, 92, 78, 95, 88>>

Catalog == <<
    [id |-> 1, name |-> "Widget Basic",   price |-> Dec2(2500)],
    [id |-> 2, name |-> "Widget Plus",    price |-> Dec2(4999)],
    [id |-> 3, name |-> "Widget Pro",     price |-> Dec2(14999)],
    [id |-> 4, name |-> "Gadget Lite",    price |-> Dec2(1999)],
    [id |-> 5, name |-> "Gadget Pro",     price |-> Dec2(19999)],
    [id |-> 6, name |-> "Gadget Ultra",   price |-> Dec2(34999)],
    [id |-> 7, name |-> "Accessory Pack", price |-> Dec2(999)],
    [id |-> 8, name |-> "Premium Bundle", price |-> Dec2(49999)] >>

ScriptOrders == <<
    [id |-> 1001, items |-> << [price |-> Dec2(2500),  qty |-> 2],
                               [price |-> Dec2(1500),  qty |-> 1] >>],
    [id |-> 1002, items |-> << [price |-> Dec2(49999), qty |-> 2],
                               [price |-> Dec2(999),   qty |-> 5] >>] >>

LargeOrder == 500

SampleLen == 15

ScriptBatchSize == 4

\* list(range(1, n + 1))
Range1(n) == [k \in 1..n |-> k]

WorkerSpecs == <<
    [name |-> "Downloader", steps |-> 4],
    [name |-> "Processor",  steps |-> 3],
    [name |-> "Uploader",   steps |-> 5] >>

Workers == 1..Len(WorkerSpecs)

Transactions == <<
    Dec2(4500), Dec2(25000), Dec2(1250), Dec2(89999), Dec2(3499),
    Dec2(15000), Dec2(6750), Dec2(240000), Dec2(599), Dec2(17500) >>

HighValue == 100

\* ------------------------------------------------------------------------
\* Bounds of the model
\* ------------------------------------------------------------------------

\* lines the presenter may type ahead of the pause that reads them
MaxTypeahead == 2

\* process_batches: the longest sequence and the largest batch size tried
MaxN == 16

MaxB == 5

\* process_order: the most items of an order tried
MaxItems == 2

\* ------------------------------------------------------------------------
\* State
\* ------------------------------------------------------------------------

VARIABLES
    sec, pc,            \* the main flow's position: section, statement
    out,                \* the lines the main flow has printed
    uncaught,           \* the exception that ended the process, or "none"
    listener,           \* <<>>, or the <<host, port>> debugpy listens on
    attached,           \* a client has attached
    paused,             \* stopped at a programmatic breakpoint
    stdin,              \* lines typed and not yet read
    pressed,            \* lines typed so far
    message,            \* explore_variables: its return value
    discounted, total,  \* calculate_total: its locals
    result,             \* module global `result`
    catalog, item_idx, label,
    data, value,        \* section 5's globals
    orders, order_idx, subtotal, tax, order_total, returned,
    pb_data, batch_size, i, batch_id, batch, pct, processed, batches, report,
    threads, join_idx, wpc, step, wout,
    txn_idx, running_total, history, high_value_count, avg

envVars == <<listener, attached, paused, stdin, pressed>>

sec2Vars == <<message>>

sec3Vars == <<discounted, total, result>>

sec4Vars == <<catalog, item_idx, label>>

sec5Vars == <<data, value>>

sec6Vars == <<orders, order_idx, subtotal, tax, order_total, returned>>

sec7Vars == <<pb_data, batch_size, i, batch_id, batch, pct, processed, batches, report>>

sec8Vars == <<threads, join_idx, wpc, step, wout>>

sec9Vars == <<txn_idx, running_total, history, high_value_count, avg>>

vars == <<sec, pc, out, uncaught, envVars, sec2Vars, sec3Vars, sec4Vars,
          sec5Vars, sec6Vars, sec7Vars, sec8Vars, sec9Vars>>

\* a printed line: what it is and the values it shows
Line(tag, args) == <<tag, args>>

Emit(l) == out' = Append(out, l)

\* the lines of `out` with a tag, in order
Tagged(tag) == SelectSeq(out, LAMBDA l : l[1] = tag)

\* the state before the script's first statement; a name not yet bound holds
\* a neutral value
Init ==
    /\ sec = 1 /\ pc = "banner" /\ out = <<>> /\ uncaught = "none"
    /\ listener = <<>> /\ attached = FALSE /\ paused = FALSE
    /\ stdin = 0 /\ pressed = 0
    /\ message = <<>>
    /\ discounted = FZero /\ total = FZero /\ result = FZero
    /\ catalog = <<>> /\ item_idx = 0 /\ label = <<>>
    /\ data = <<>> /\ value = 0
    /\ orders = ScriptOrders /\ order_idx = 1
    /\ subtotal = FZero /\ tax = FZero /\ order_total = FZero /\ returned = <<>>
    /\ pb_data = <<>> /\ batch_size = 0 /\ i = 0 /\ batch_id = 0
    /\ batch = <<>> /\ pct = FZero /\ processed = <<>> /\ batches = <<>>
    /\ report = <<>>
    /\ threads = <<>> /\ join_idx = 1
    /\ wpc = [w \in Workers |-> "unstarted"]
    /\ step = [w \in Workers |-> 0]
    /\ wout = [w \in Workers |-> <<>>]
    /\ txn_idx = 0 /\ running_total = FZero /\ history = <<>>
    /\ high_value_count = 0 /\ avg = FZero

EmitAll(ls) == out' = out \o ls

\* ------------------------------------------------------------------------
\* The presenter and the IDE
\* ------------------------------------------------------------------------

Running == pc \notin {"done", "crashed"}

\* the presenter presses Enter; the line waits on stdin until input() reads it
PressEnter ==
    /\ Running
    /\ stdin < MaxTypeahead
    /\ stdin' = stdin + 1
    /\ pressed' = pressed + 1
    /\ UNCHANGED <<sec, pc, out, uncaught, listener, attached, paused,
                   sec2Vars, sec3Vars, sec4Vars, sec5Vars, sec6Vars, sec7Vars,
                   sec8Vars, sec9Vars>>

\* the IDE connects to the listening endpoint
ClientAttach ==
    /\ Running
    /\ listener # <<>>
    /\ ~attached
    /\ attached' = TRUE
    /\ UNCHANGED <<sec, pc, out, uncaught, listener, paused, stdin, pressed,
                   sec2Vars, sec3Vars, sec4Vars, sec5Vars, sec6Vars, sec7Vars,
                   sec8Vars, sec9Vars>>

\* the presenter resumes the program stopped at a programmatic breakpoint
DebuggerContinue ==
    /\ paused
    /\ paused' = FALSE
    /\ UNCHANGED <<sec, pc, out, uncaught, listener, attached, stdin, pressed,
                   sec2Vars, sec3Vars, sec4Vars, sec5Vars, sec6Vars, sec7Vars,
                   sec8Vars, sec9Vars>>

\* ------------------------------------------------------------------------
\* Helpers
\* ------------------------------------------------------------------------

\* the first statement after a section's banner
Entry(s) ==
    CASE s = 1 -> "listen"
      [] s = 2 -> "explore"
      [] s = 3 -> "calculate"
      [] s = 4 -> "catalog"
      [] s = 5 -> "try_division"
      [] s = 6 -> "orders"
      [] s = 7 -> "batches"
      [] s = 8 -> "spawn"
      [] s = 9 -> "transactions"

banner ==
    /\ pc = "banner"
    /\ Emit(Line("banner", <<sec>>))
    /\ pc' = Entry(sec)
    /\ UNCHANGED <<sec, uncaught, envVars, sec2Vars, sec3Vars, sec4Vars,
                   sec5Vars, sec6Vars, sec7Vars, sec8Vars, sec9Vars>>

\* pause(): input() writes its prompt ...
pause ==
    /\ pc = "pause"
    /\ Emit(Line("prompt", <<sec>>))
    /\ pc' = "input"
    /\ UNCHANGED <<sec, uncaught, envVars, sec2Vars, sec3Vars, sec4Vars,
                   sec5Vars, sec6Vars, sec7Vars, sec8Vars, sec9Vars>>

\* a pause that does not wait for the presenter
InputNoWait ==
    /\ pc = "input"
    /\ Emit(Line("enter", <<sec>>))
    /\ sec' = sec + 1
    /\ pc' = "banner"
    /\ UNCHANGED <<uncaught, envVars, sec2Vars, sec3Vars, sec4Vars, sec5Vars,
                   sec6Vars, sec7Vars, sec8Vars, sec9Vars>>

\* ... and returns once a line can be read; the next section follows
input ==
    /\ pc = "input"
    /\ stdin > 0
    /\ stdin' = stdin - 1
    /\ Emit(Line("enter", <<sec>>))
    /\ sec' = sec + 1
    /\ pc' = "banner"
    /\ UNCHANGED <<uncaught, listener, attached, paused, pressed, sec2Vars,
                   sec3Vars, sec4Vars, sec5Vars, sec6Vars, sec7Vars, sec8Vars,
                   sec9Vars>>

\* an exception no handler takes ends the process
Crash(exc) ==
    /\ pc' = "crashed"
    /\ uncaught' = exc

\* the outcome of a call: a value, or an exception raised
Return(v) == [exc |-> "none", val |-> v]

Raise(e) == [exc |-> e]

\* every handler written as `except ValueError`
HandlesValueErrorOnly(handler, exc) == exc = "ValueError"

\* `except handler` takes an exception of that class; the three handlers of
\* the script name the class raised itself, which has no subclass involved
Handles(handler, exc) == exc = handler

\* ------------------------------------------------------------------------
\* Section 1: remote debugging setup
\* ------------------------------------------------------------------------

listen ==
    /\ pc = "listen"
    /\ listener' = <<ListenHost, ListenPort>>
    /\ EmitAll(<<Line("starting", <<ListenPort>>), Line("text", <<sec>>)>>)
    /\ pc' = "wait"
    /\ UNCHANGED <<sec, uncaught, attached, paused, stdin, pressed, sec2Vars,
                   sec3Vars, sec4Vars, sec5Vars, sec6Vars, sec7Vars, sec8Vars,
                   sec9Vars>>

\* a wait that returns at once
WaitNoBlock ==
    /\ pc = "wait"
    /\ Emit(Line("attached", <<>>))
    /\ pc' = "pause"
    /\ UNCHANGED <<sec, uncaught, envVars, sec2Vars, sec3Vars, sec4Vars,
                   sec5Vars, sec6Vars, sec7Vars, sec8Vars, sec9Vars>>

wait_for_client ==
    /\ pc = "wait"
    /\ attached
    /\ Emit(Line("attached", <<>>))
    /\ pc' = "pause"
    /\ UNCHANGED <<sec, uncaught, envVars, sec2Vars, sec3Vars, sec4Vars,
                   sec5Vars, sec6Vars, sec7Vars, sec8Vars, sec9Vars>>

\* ------------------------------------------------------------------------
\* Section 2: basic breakpoints and variable inspection
\* ------------------------------------------------------------------------

RECURSIVE Sum(_)
Sum(s) == IF s = <<>> THEN 0 ELSE s[1] + Sum(Tail(s))

explore_variables ==
    /\ pc = "explore"
    /\ LET average == FDivInt(Sum(Scores), Len(Scores))
       IN  message' = <<"Alice", Tenths(average)>>
    /\ EmitAll(<<Line("text", <<sec>>), Line("result", <<message'[2]>>)>>)
    /\ pc' = "pause"
    /\ UNCHANGED <<sec, uncaught, envVars, sec3Vars, sec4Vars, sec5Vars,
                   sec6Vars, sec7Vars, sec8Vars, sec9Vars>>

\* ------------------------------------------------------------------------
\* Section 3: stepping through code
\* ------------------------------------------------------------------------

BasePrice == Dec2(25000)

DiscountPct == 15

TaxRate == Dec2(9)

apply_discount(price, discount_pct) ==
    LET discount == FMul(price, FDivInt(discount_pct, 100))
    IN  FSub(price, discount)

\* the tax alone, the price not added
apply_tax_TaxOnly(price, tax_rate) == FMul(price, tax_rate)

apply_tax(price, tax_rate) ==
    LET tax_ == FMul(price, tax_rate)
    IN  FAdd(price, tax_)

\* the call of line 134 is stepped through: into calculate_total ...
calculate_total ==
    /\ pc = "calculate"
    /\ Emit(Line("text", <<sec>>))
    /\ pc' = "apply_discount"
    /\ UNCHANGED <<sec, uncaught, envVars, sec2Vars, sec3Vars, sec4Vars,
                   sec5Vars, sec6Vars, sec7Vars, sec8Vars, sec9Vars>>

\* ... discounted = apply_discount(base_price, discount_pct) ...
StepDiscount ==
    /\ pc = "apply_discount"
    /\ discounted' = apply_discount(BasePrice, DiscountPct)
    /\ pc' = "apply_tax"
    /\ UNCHANGED <<sec, out, uncaught, envVars, sec2Vars, total, result,
                   sec4Vars, sec5Vars, sec6Vars, sec7Vars, sec8Vars, sec9Vars>>

\* ... total = apply_tax(discounted, tax_rate) ...
StepTax ==
    /\ pc = "apply_tax"
    /\ total' = apply_tax(discounted, TaxRate)
    /\ pc' = "round"
    /\ UNCHANGED <<sec, out, uncaught, envVars, sec2Vars, discounted, result,
                   sec4Vars, sec5Vars, sec6Vars, sec7Vars, sec8Vars, sec9Vars>>

\* ... return round(total, 2), bound to `result` and printed
StepReturn ==
    /\ pc = "round"
    /\ result' = PyRound2(total)
    /\ Emit(Line("final_total", <<result'>>))
    /\ pc' = "pause"
    /\ UNCHANGED <<sec, uncaught, envVars, sec2Vars, discounted, total,
                   sec4Vars, sec5Vars, sec6Vars, sec7Vars, sec8Vars, sec9Vars>>

\* ------------------------------------------------------------------------
\* Section 4: conditional breakpoints
\* ------------------------------------------------------------------------

CatalogStart ==
    /\ pc = "catalog"
    /\ Emit(Line("text", <<sec>>))
    /\ catalog' = Catalog
    /\ pc' = "catalog_loop"
    /\ UNCHANGED <<sec, uncaught, envVars, sec2Vars, sec3Vars, item_idx,
                   label, sec5Vars, sec6Vars, sec7Vars, sec8Vars, sec9Vars>>

\* a loop body that removes the entry it has printed
CatalogIterRemoving ==
    /\ pc = "catalog_loop"
    /\ item_idx < Len(catalog)
    /\ LET item == catalog[item_idx + 1]
       IN  /\ label' = <<item.id, item.name, Hundredths(item.price)>>
           /\ Emit(Line("label", label'))
    /\ catalog' = SubSeq(catalog, 1, item_idx) \o SubSeq(catalog, item_idx + 2, Len(catalog))
    /\ item_idx' = item_idx + 1
    /\ UNCHANGED <<sec, pc, uncaught, envVars, sec2Vars, sec3Vars,
                   sec5Vars, sec6Vars, sec7Vars, sec8Vars, sec9Vars>>

\* one turn of `for item in catalog`: the list iterator yields the next entry
CatalogIter ==
    /\ pc = "catalog_loop"
    /\ item_idx < Len(catalog)
    /\ LET item == catalog[item_idx + 1]
       IN  /\ label' = <<item.id, item.name, Hundredths(item.price)>>
           /\ Emit(Line("label", label'))
    /\ item_idx' = item_idx + 1
    /\ UNCHANGED <<sec, pc, uncaught, envVars, sec2Vars, sec3Vars, catalog,
                   sec5Vars, sec6Vars, sec7Vars, sec8Vars, sec9Vars>>

\* the iterator is exhausted
CatalogDone ==
    /\ pc = "catalog_loop"
    /\ item_idx >= Len(catalog)
    /\ pc' = "pause"
    /\ UNCHANGED <<sec, out, uncaught, envVars, sec2Vars, sec3Vars, sec4Vars,
                   sec5Vars, sec6Vars, sec7Vars, sec8Vars, sec9Vars>>

\* ------------------------------------------------------------------------
\* Section 5: exception breakpoints
\* ------------------------------------------------------------------------

risky_division(a, b) ==
    IF b = 0 THEN Raise("ZeroDivisionError") ELSE Return(FDivInt(a, b))

Digits == <<"0", "1", "2", "3", "4", "5", "6", "7", "8", "9">>

DigitOf(c) == (CHOOSE d \in 1..Len(Digits) : Digits[d] = c) - 1

RECURSIVE DecimalValue(_, _)
DecimalValue(s, acc) ==
    IF s = <<>> THEN acc ELSE DecimalValue(Tail(s), 10 * acc + DigitOf(s[1]))

\* int(value) of a string, given as its characters: a run of decimal digits
\* is a number (the sign, blanks and underscores int() also takes do not
\* occur in the script)
parse_number(v) ==
    IF v # <<>> /\ \A k \in 1..Len(v) : \E d \in 1..Len(Digits) : Digits[d] = v[k]
    THEN Return(DecimalValue(v, 0))
    ELSE Raise("ValueError")

\* d[key] of a dict
Subscript(d, key) ==
    IF key \in DOMAIN d THEN Return(d[key]) ELSE Raise("KeyError")

Hello == <<"h", "e", "l", "l", "o">>

DataDict == [k \in {"a", "b"} |-> IF k = "a" THEN 1 ELSE 2]

\* try: result = risky_division(10, 0) / except ZeroDivisionError
TryDivision ==
    /\ pc = "try_division"
    /\ LET r == risky_division(10, 0)
       IN  IF r.exc = "none"
           THEN /\ result' = r.val
                /\ EmitAll(<<Line("text", <<sec>>), Line("attempt", <<1>>)>>)
                /\ pc' = "try_parse"
                /\ UNCHANGED uncaught
           ELSE IF Handles("ZeroDivisionError", r.exc)
           THEN /\ EmitAll(<<Line("text", <<sec>>), Line("attempt", <<1>>),
                             Line("caught", <<r.exc>>)>>)
                /\ pc' = "try_parse"
                /\ UNCHANGED <<result, uncaught>>
           ELSE /\ EmitAll(<<Line("text", <<sec>>), Line("attempt", <<1>>)>>)
                /\ Crash(r.exc)
                /\ UNCHANGED result
    /\ UNCHANGED <<sec, envVars, sec2Vars, discounted, total, sec4Vars,
                   sec5Vars, sec6Vars, sec7Vars, sec8Vars, sec9Vars>>

\* try: result = parse_number("hello") / except ValueError
TryParse ==
    /\ pc = "try_parse"
    /\ LET r == parse_number(Hello)
       IN  IF r.exc = "none"
           THEN /\ result' = FFromInt(r.val)
                /\ Emit(Line("attempt", <<2>>))
                /\ pc' = "try_key"
                /\ UNCHANGED uncaught
           ELSE IF Handles("ValueError", r.exc)
           THEN /\ EmitAll(<<Line("attempt", <<2>>), Line("caught", <<r.exc>>)>>)
                /\ pc' = "try_key"
                /\ UNCHANGED <<result, uncaught>>
           ELSE /\ Emit(Line("attempt", <<2>>))
                /\ Crash(r.exc)
                /\ UNCHANGED result
    /\ UNCHANGED <<sec, envVars, sec2Vars, discounted, total, sec4Vars,
                   sec5Vars, sec6Vars, sec7Vars, sec8Vars, sec9Vars>>

\* try: data = {...}; value = data["missing_key"] / except KeyError
TryKey ==
    /\ pc = "try_key"
    /\ data' = DataDict
    /\ LET r == Subscript(data', "missing_key")
       IN  IF r.exc = "none"
           THEN /\ value' = r.val
                /\ Emit(Line("attempt", <<3>>))
                /\ pc' = "all_caught"
                /\ UNCHANGED uncaught
           ELSE IF Handles("KeyError", r.exc)
           THEN /\ EmitAll(<<Line("attempt", <<3>>), Line("caught", <<r.exc>>)>>)
                /\ pc' = "all_caught"
                /\ UNCHANGED <<value, uncaught>>
           ELSE /\ Emit(Line("attempt", <<3>>))
                /\ Crash(r.exc)
                /\ UNCHANGED value
    /\ UNCHANGED <<sec, envVars, sec2Vars, sec3Vars, sec4Vars, sec6Vars,
                   sec7Vars, sec8Vars, sec9Vars>>

ReportCaught ==
    /\ pc = "all_caught"
    /\ Emit(Line("all_caught", <<>>))
    /\ pc' = "pause"
    /\ UNCHANGED <<sec, uncaught, envVars, sec2Vars, sec3Vars, sec4Vars,
                   sec5Vars, sec6Vars, sec7Vars, sec8Vars, sec9Vars>>

\* ------------------------------------------------------------------------
\* Section 6: programmatic breakpoints
\* ------------------------------------------------------------------------

TaxPct == 8

\* sum(item["price"] * item["qty"] for item in items): a left fold from 0
RECURSIVE SumItems(_, _)
SumItems(items, acc) ==
    IF items = <<>> THEN acc
    ELSE SumItems(Tail(items),
                  FAdd(acc, FMul(items[1].price, FFromInt(items[1].qty))))

\* `subtotal >= 500`
IsLargeOrderGe(s) == FCmp(s, FFromInt(LargeOrder)) >= 0

\* `subtotal > 500`
IsLargeOrder(s) == FGt(s, FFromInt(LargeOrder))

OrdersStart ==
    /\ pc = "orders"
    /\ Emit(Line("text", <<sec>>))
    /\ pc' = "order_call"
    /\ UNCHANGED <<sec, uncaught, envVars, sec2Vars, sec3Vars, sec4Vars,
                   sec5Vars, sec6Vars, sec7Vars, sec8Vars, sec9Vars>>

\* process_order, to its `if`: debugpy.breakpoint() stops the program when a
\* client is attached
OrderSubtotal ==
    /\ pc = "order_call"
    /\ order_idx <= Len(orders)
    /\ subtotal' = SumItems(orders[order_idx].items, FZero)
    /\ IF IsLargeOrder(subtotal')
       THEN /\ paused' = attached
            /\ Emit(Line("breakpoint", <<orders[order_idx].id>>))
            /\ pc' = "order_large"
       ELSE /\ pc' = "order_total"
            /\ UNCHANGED <<paused, out>>
    /\ UNCHANGED <<sec, uncaught, listener, attached, stdin, pressed, sec2Vars,
                   sec3Vars, sec4Vars, sec5Vars, orders, order_idx, tax,
                   order_total, returned, sec7Vars, sec8Vars, sec9Vars>>

\* the warning of a large order, once the presenter has resumed the program
OrderLarge ==
    /\ pc = "order_large"
    /\ ~paused
    /\ Emit(Line("large", <<orders[order_idx].id, Hundredths(subtotal)>>))
    /\ pc' = "order_total"
    /\ UNCHANGED <<sec, uncaught, envVars, sec2Vars, sec3Vars, sec4Vars,
                   sec5Vars, sec6Vars, sec7Vars, sec8Vars, sec9Vars>>

\* tax, total, the order's line and the return; the next call follows
OrderTotal ==
    /\ pc = "order_total"
    /\ tax' = FMul(subtotal, Dec2(TaxPct))
    /\ order_total' = FAdd(subtotal, tax')
    /\ Emit(Line("order", <<orders[order_idx].id, Hundredths(subtotal),
                           Hundredths(tax'), Hundredths(order_total')>>))
    /\ returned' = Append(returned, order_total')
    /\ order_idx' = order_idx + 1
    /\ pc' = IF order_idx < Len(orders) THEN "order_call" ELSE "pause"
    /\ UNCHANGED <<sec, uncaught, envVars, sec2Vars, sec3Vars, sec4Vars,
                   sec5Vars, orders, subtotal, sec7Vars, sec8Vars, sec9Vars>>

\* ------------------------------------------------------------------------
\* Section 7: logpoints
\* ------------------------------------------------------------------------

BatchesStart ==
    /\ pc = "batches"
    /\ Emit(Line("text", <<sec>>))
    /\ pb_data' = Range1(SampleLen)
    /\ batch_size' = ScriptBatchSize
    /\ i' = 0
    /\ pc' = "batch_loop"
    /\ UNCHANGED <<sec, uncaught, envVars, sec2Vars, sec3Vars, sec4Vars,
                   sec5Vars, sec6Vars, batch_id, batch, pct, processed,
                   batches, report, sec8Vars, sec9Vars>>

\* a slice that takes the element at hi as well
SliceInclusive(s, lo, hi) == SubSeq(s, lo + 1, IF hi + 1 < Len(s) THEN hi + 1 ELSE Len(s))

\* data[lo:hi] for 0 <= lo: the elements at 0-based positions lo .. hi - 1
\* that exist
Slice(s, lo, hi) == SubSeq(s, lo + 1, IF hi < Len(s) THEN hi ELSE Len(s))

\* one turn of `for i in range(0, total, batch_size)`
BatchIter ==
    /\ pc = "batch_loop"
    /\ i < Len(pb_data)
    /\ batch_id' = i \div batch_size + 1
    /\ batch' = Slice(pb_data, i, i + batch_size)
    /\ pct' = FMin(FDivInt(i + batch_size, Len(pb_data)), FFromInt(1))
    /\ processed' = [k \in 1..Len(batch') |-> batch'[k] * batch'[k]]
    /\ batches' = Append(batches, batch')
    /\ i' = i + batch_size
    /\ UNCHANGED <<sec, pc, out, uncaught, envVars, sec2Vars, sec3Vars,
                   sec4Vars, sec5Vars, sec6Vars, pb_data, batch_size, report,
                   sec8Vars, sec9Vars>>

\* the range is exhausted: the report reads batch_id, which no turn of the
\* loop has bound when data is empty
BatchReport ==
    /\ pc = "batch_loop"
    /\ i >= Len(pb_data)
    /\ IF batch_id = 0
       THEN /\ Crash("UnboundLocalError")
            /\ UNCHANGED <<report, out>>
       ELSE /\ report' = <<Len(pb_data), batch_id>>
            /\ Emit(Line("processed", report'))
            /\ pc' = "pause"
            /\ UNCHANGED uncaught
    /\ UNCHANGED <<sec, envVars, sec2Vars, sec3Vars, sec4Vars, sec5Vars,
                   sec6Vars, pb_data, batch_size, i, batch_id, batch, pct,
                   processed, batches, sec8Vars, sec9Vars>>

\* ------------------------------------------------------------------------
\* Section 8: multi-threaded debugging
\* ------------------------------------------------------------------------

SpawnStart ==
    /\ pc = "spawn"
    /\ Emit(Line("text", <<sec>>))
    /\ threads' = <<>>
    /\ pc' = "start_loop"
    /\ UNCHANGED <<sec, uncaught, envVars, sec2Vars, sec3Vars, sec4Vars,
                   sec5Vars, sec6Vars, sec7Vars, join_idx, wpc, step, wout,
                   sec9Vars>>

\* one turn of the first loop: the thread is made, appended and started
ThreadStart ==
    /\ pc = "start_loop"
    /\ Len(threads) < Len(WorkerSpecs)
    /\ LET w == Len(threads) + 1
       IN  /\ threads' = Append(threads, w)
           /\ wpc' = [wpc EXCEPT ![w] = "loop"]
    /\ UNCHANGED <<sec, pc, out, uncaught, envVars, sec2Vars, sec3Vars,
                   sec4Vars, sec5Vars, sec6Vars, sec7Vars, join_idx, step,
                   wout, sec9Vars>>

StartDone ==
    /\ pc = "start_loop"
    /\ Len(threads) >= Len(WorkerSpecs)
    /\ pc' = "join_loop"
    /\ join_idx' = 1
    /\ UNCHANGED <<sec, out, uncaught, envVars, sec2Vars, sec3Vars, sec4Vars,
                   sec5Vars, sec6Vars, sec7Vars, threads, wpc, step, wout,
                   sec9Vars>>

\* a join that does not wait for the thread to end
JoinNoWait ==
    /\ pc = "join_loop"
    /\ join_idx <= Len(threads)
    /\ join_idx' = join_idx + 1
    /\ UNCHANGED <<sec, pc, out, uncaught, envVars, sec2Vars, sec3Vars,
                   sec4Vars, sec5Vars, sec6Vars, sec7Vars, threads, wpc, step,
                   wout, sec9Vars>>

\* one turn of `for t in threads: t.join()`: join returns once t has ended
Join ==
    /\ pc = "join_loop"
    /\ join_idx <= Len(threads)
    /\ wpc[threads[join_idx]] = "terminated"
    /\ join_idx' = join_idx + 1
    /\ UNCHANGED <<sec, pc, out, uncaught, envVars, sec2Vars, sec3Vars,
                   sec4Vars, sec5Vars, sec6Vars, sec7Vars, threads, wpc, step,
                   wout, sec9Vars>>

JoinDone ==
    /\ pc = "join_loop"
    /\ join_idx > Len(threads)
    /\ Emit(Line("all_finished", <<>>))
    /\ pc' = "pause"
    /\ UNCHANGED <<sec, uncaught, envVars, sec2Vars, sec3Vars, sec4Vars,
                   sec5Vars, sec6Vars, sec7Vars, sec8Vars, sec9Vars>>

mainVars == <<sec, pc, out, uncaught, envVars, sec2Vars, sec3Vars, sec4Vars,
              sec5Vars, sec6Vars, sec7Vars, threads, join_idx, sec9Vars>>

\* a step counter shared by the threads
WorkerStepShared(w) ==
    /\ wpc[w] = "loop"
    /\ step[w] < WorkerSpecs[w].steps
    /\ step' = [v \in Workers |-> step[w] + 1]
    /\ wout' = [wout EXCEPT ![w] =
                   Append(wout[w], Line("step", <<step'[w], WorkerSpecs[w].steps>>))]
    /\ wpc' = [wpc EXCEPT ![w] = "sleep"]
    /\ UNCHANGED mainVars

\* worker(name, steps), one turn of its loop to the sleep: the status line
WorkerStep(w) ==
    /\ wpc[w] = "loop"
    /\ step[w] < WorkerSpecs[w].steps
    /\ step' = [step EXCEPT ![w] = step[w] + 1]
    /\ wout' = [wout EXCEPT ![w] =
                   Append(wout[w], Line("step", <<step'[w], WorkerSpecs[w].steps>>))]
    /\ wpc' = [wpc EXCEPT ![w] = "sleep"]
    /\ UNCHANGED mainVars

\* time.sleep(0.5) returns
WorkerWake(w) ==
    /\ wpc[w] = "sleep"
    /\ wpc' = [wpc EXCEPT ![w] = "loop"]
    /\ UNCHANGED <<mainVars, step, wout>>

\* the range is exhausted: the Done line, and the thread ends
WorkerDone(w) ==
    /\ wpc[w] = "loop"
    /\ step[w] >= WorkerSpecs[w].steps
    /\ wout' = [wout EXCEPT ![w] = Append(wout[w], Line("done", <<>>))]
    /\ wpc' = [wpc EXCEPT ![w] = "terminated"]
    /\ UNCHANGED <<mainVars, step>>

worker(w) == WorkerStep(w) \/ WorkerWake(w) \/ WorkerDone(w)

\* ------------------------------------------------------------------------
\* Section 9: watch expressions, and the end of the script
\* ------------------------------------------------------------------------

TransactionsStart ==
    /\ pc = "transactions"
    /\ Emit(Line("text", <<sec>>))
    /\ running_total' = FZero
    /\ history' = <<>>
    /\ high_value_count' = 0
    /\ txn_idx' = 0
    /\ pc' = "txn_loop"
    /\ UNCHANGED <<sec, uncaught, envVars, sec2Vars, sec3Vars, sec4Vars,
                   sec5Vars, sec6Vars, sec7Vars, sec8Vars, avg>>

\* one turn of `for i, txn in enumerate(transactions)`
TxnIter ==
    /\ pc = "txn_loop"
    /\ txn_idx < Len(Transactions)
    /\ LET amount == Transactions[txn_idx + 1]
       IN  /\ running_total' = FAdd(running_total, amount)
           /\ history' = Append(history, running_total')
           /\ high_value_count' = IF FGt(amount, FFromInt(HighValue))
                                  THEN high_value_count + 1
                                  ELSE high_value_count
           /\ avg' = FDivSmall(running_total', txn_idx + 1)
           /\ Emit(Line("txn", <<txn_idx + 1, Hundredths(amount),
                                 Hundredths(running_total'), Hundredths(avg')>>))
    /\ txn_idx' = txn_idx + 1
    /\ UNCHANGED <<sec, pc, uncaught, envVars, sec2Vars, sec3Vars, sec4Vars,
                   sec5Vars, sec6Vars, sec7Vars, sec8Vars>>

TxnSummary ==
    /\ pc = "txn_loop"
    /\ txn_idx >= Len(Transactions)
    /\ EmitAll(<<Line("summary", <<Len(Transactions), high_value_count>>),
                 Line("total", <<Hundredths(running_total)>>)>>)
    /\ pc' = "complete"
    /\ UNCHANGED <<sec, uncaught, envVars, sec2Vars, sec3Vars, sec4Vars,
                   sec5Vars, sec6Vars, sec7Vars, sec8Vars, sec9Vars>>

Complete ==
    /\ pc = "complete"
    /\ Emit(Line("complete", <<>>))
    /\ pc' = "done"
    /\ UNCHANGED <<sec, uncaught, envVars, sec2Vars, sec3Vars, sec4Vars,
                   sec5Vars, sec6Vars, sec7Vars, sec8Vars, sec9Vars>>

\* ------------------------------------------------------------------------
\* The script
\* ------------------------------------------------------------------------

Main ==
    \/ banner \/ pause \/ input
    \/ listen \/ wait_for_client
    \/ explore_variables
    \/ calculate_total \/ StepDiscount \/ StepTax \/ StepReturn
    \/ CatalogStart \/ CatalogIter \/ CatalogDone
    \/ TryDivision \/ TryParse \/ TryKey \/ ReportCaught
    \/ OrdersStart \/ OrderSubtotal \/ OrderLarge \/ OrderTotal
    \/ BatchesStart \/ BatchIter \/ BatchReport
    \/ SpawnStart \/ ThreadStart \/ StartDone \/ Join \/ JoinDone
    \/ TransactionsStart \/ TxnIter \/ TxnSummary \/ Complete

Presenter == PressEnter \/ ClientAttach \/ DebuggerContinue

Next == Main \/ (\E w \in Workers : worker(w)) \/ Presenter

Spec == Init /\ [][Next]_vars

\* the scheduler runs every thread that can run; the presenter presses
\* Enter, attaches the IDE and resumes the program when the script waits
FairSpec ==
    /\ Spec
    /\ WF_vars(Main)
    /\ \A w \in Workers : WF_vars(worker(w))
    /\ WF_vars(PressEnter)
    /\ WF_vars(ClientAttach)
    /\ WF_vars(DebuggerContinue)

\* ------------------------------------------------------------------------
\* process_batches and process_order on their own, for any arguments
\* ------------------------------------------------------------------------

\* the state at a call made in section s, at statement p, with a client
\* attached and nothing printed yet
AtCall(s, p) ==
    /\ sec = s /\ pc = p /\ out = <<>> /\ uncaught = "none"
    /\ listener = <<ListenHost, ListenPort>> /\ attached = TRUE
    /\ paused = FALSE /\ stdin = 0 /\ pressed = 0
    /\ message = <<>>
    /\ discounted = FZero /\ total = FZero /\ result = FZero
    /\ catalog = Catalog /\ item_idx = Len(Catalog) /\ label = <<>>
    /\ data = DataDict /\ value = 0
    /\ order_idx = 1
    /\ subtotal = FZero /\ tax = FZero /\ order_total = FZero /\ returned = <<>>
    /\ i = 0 /\ batch_id = 0
    /\ batch = <<>> /\ pct = FZero /\ processed = <<>> /\ batches = <<>>
    /\ report = <<>>
    /\ threads = <<>> /\ join_idx = 1
    /\ wpc = [w \in Workers |-> "unstarted"]
    /\ step = [w \in Workers |-> 0]
    /\ wout = [w \in Workers |-> <<>>]
    /\ txn_idx = 0 /\ running_total = FZero /\ history = <<>>
    /\ high_value_count = 0 /\ avg = FZero

\* process_batches(data, batch_size) for data = 1 .. n
InitBatches ==
    /\ AtCall(7, "batch_loop")
    /\ orders = ScriptOrders
    /\ \E n \in 0..MaxN : pb_data = Range1(n)
    /\ batch_size \in 1..MaxB

NextBatches == BatchIter \/ BatchReport

SpecBatches == InitBatches /\ [][NextBatches]_vars

\* prices around the threshold, in hundredths
TryPrices == {1, 25000, 49999, 50000, 50001}

TryQtys == {1, 2}

TryItems == [price : {Dec2(h) : h \in TryPrices}, qty : TryQtys]

TryItemLists == UNION {[1..n -> TryItems] : n \in 0..MaxItems}

TryOrders ==
    {<<[id |-> d, items |-> its]>> :
        d \in {o.id : o \in {ScriptOrders[k] : k \in 1..Len(ScriptOrders)}},
        its \in TryItemLists}

\* the script's two calls, or one call of process_order(order_id, items)
InitOrder ==
    /\ AtCall(6, "order_call")
    /\ pb_data = <<>> /\ batch_size = 0
    /\ orders \in {ScriptOrders} \cup TryOrders

NextOrder == OrderSubtotal \/ OrderLarge \/ OrderTotal \/ DebuggerContinue

SpecOrder == InitOrder /\ [][NextOrder]_vars

\* ------------------------------------------------------------------------
\* Properties
\* ------------------------------------------------------------------------

IsPrefix(s, t) == Len(s) <= Len(t) /\ s = SubSeq(t, 1, Len(s))

Last(s) == s[Len(s)]

\* the lines of `out` whose tag is in a set, in order
TaggedIn(tags) == SelectSeq(out, LAMBDA l : l[1] \in tags)

\* the main flow is past the body of section s
PastBody(s) == sec > s \/ (sec = s /\ pc \in {"pause", "input", "complete", "done"})

\* C1: whenever the line 'All threads finished.' has been printed, each of
\* the three workers has printed its Done line, as its last line, and has
\* ended; so in no schedule does the summary precede a worker's Done line.
C1_SummaryAfterEveryDone ==
    Tagged("all_finished") # <<>> =>
        \A w \in Workers :
            /\ wpc[w] = "terminated"
            /\ wout[w] # <<>>
            /\ Last(wout[w]) = Line("done", <<>>)

C1_Witness ==
    /\ Tagged("all_finished") # <<>>
    /\ \A w \in Workers : Last(wout[w]) = Line("done", <<>>)

\* C2: the three exceptions are raised and caught in the order
\* ZeroDivisionError, ValueError, KeyError, each right after its attempt;
\* no state is one of a process ended by an exception; and under the fair
\* schedule, once all three are caught the script reaches 'Demo complete'.
C2_Expected ==
    << Line("attempt", <<1>>), Line("caught", <<"ZeroDivisionError">>),
       Line("attempt", <<2>>), Line("caught", <<"ValueError">>),
       Line("attempt", <<3>>), Line("caught", <<"KeyError">>),
       Line("all_caught", <<>>) >>

C2_Trace == TaggedIn({"attempt", "caught", "all_caught"})

C2_Safety ==
    /\ pc # "crashed"
    /\ uncaught = "none"
    /\ IsPrefix(C2_Trace, C2_Expected)
    /\ PastBody(5) => C2_Trace = C2_Expected

C2_AllCaught == Len(Tagged("caught")) = 3

C2_Completed == pc = "done" /\ Last(out) = Line("complete", <<>>)

C2_CaughtThenCompletes == [](C2_Safety) /\ (C2_AllCaught ~> C2_Completed)

C2_Witness == C2_AllCaught /\ C2_Completed /\ sec = LastSection

\* C3: for n >= 1 items and batch size b >= 1, process_batches makes
\* ceil(n/b) turns; the batches laid end to end are the sequence itself, so
\* they are consecutive, disjoint and in order; each has b items but the
\* last, which has n - b*(ceil(n/b) - 1); the report names n items and
\* ceil(n/b) batches.  For 15 items and b = 4: sizes 4,4,4,3, report 15, 4.
RECURSIVE Flatten(_)
Flatten(ss) == IF ss = <<>> THEN <<>> ELSE ss[1] \o Flatten(Tail(ss))

CeilDiv(n, b) == (n + b - 1) \div b

C3_BatchesPartitionData ==
    LET n == Len(pb_data)
        b == batch_size
        c == CeilDiv(n, b)
    IN  n >= 1 =>
          /\ pc # "crashed"
          /\ Len(batches) <= c
          /\ Flatten(batches) = SubSeq(pb_data, 1, IF i < n THEN i ELSE n)
          /\ \A k \in 1..Len(batches) :
                Len(batches[k]) = IF k < c THEN b ELSE n - b * (c - 1)
          /\ \A k \in 1..Len(batches) : batches[k] # <<>>
          /\ pc = "pause" =>
                /\ Len(batches) = c
                /\ batch_id = c
                /\ report = <<n, c>>
                /\ Last(out) = Line("processed", <<n, c>>)
          /\ (pc = "pause" /\ n = SampleLen /\ b = ScriptBatchSize) =>
                /\ [k \in 1..Len(batches) |-> Len(batches[k])] = <<4, 4, 4, 3>>
                /\ report = <<15, 4>>

C3_Witness ==
    /\ pc = "pause"
    /\ pb_data = Range1(SampleLen)
    /\ batch_size = ScriptBatchSize
    /\ Len(batches) = 4

\* C4, as stated: once calculate_total(250.00, 15, 0.09) has returned, the
\* final total is 231.57.
C4_Original ==
    Tagged("final_total") # <<>> => result = Dec2(23157)

\* C4, amended: once calculate_total(250.00, 15, 0.09) has returned, the
\* final total is 231.62.
C4_FinalTotal ==
    Tagged("final_total") # <<>> =>
        /\ result = Dec2(23162)
        /\ Tagged("final_total") = <<Line("final_total", <<Dec2(23162)>>)>>

C4_Witness == Tagged("final_total") # <<>> /\ sec = 3 /\ pc = "pause"

\* C5: the catalog loop prints one label per entry, in input order (ids 1 to
\* 8), each entry once; from the loop's start on, the catalog has the length,
\* the order and the id, name and price values it was given.
C5_Labels(c, n) ==
    [k \in 1..n |-> Line("label", <<c[k].id, c[k].name, Hundredths(c[k].price)>>)]

C5_CatalogVisitedInOrderUnchanged ==
    LET given  == Catalog
        labels == Tagged("label")
    IN  /\ labels = C5_Labels(given, item_idx)
        /\ [k \in 1..item_idx |-> labels[k][2][1]] = [k \in 1..item_idx |-> k]
        /\ item_idx <= Len(given)
        /\ PastBody(4) => item_idx = 8
        /\ (sec > 4 \/ (sec = 4 /\ pc \notin {"banner", "catalog"})) =>
              /\ Len(catalog) = Len(given)
              /\ \A k \in 1..Len(given) :
                    /\ catalog[k].id = given[k].id
                    /\ catalog[k].name = given[k].name
                    /\ catalog[k].price = given[k].price

C5_Witness ==
    sec = 4 /\ pc = "pause" /\ Len(Tagged("label")) = 8 /\ catalog = Catalog

\* C6: the banners, guidance texts, prompts and Enter reads of the main flow
\* are always a prefix of: banner 1, text 1, prompt 1, Enter 1, banner 2,
\* ..., banner 9, text 9, 'Demo complete'; every read of a pause took a line
\* the presenter had typed; at the end the whole sequence has been printed.
RECURSIVE C6_Sections(_)
C6_Sections(k) ==
    IF k > LastSection THEN <<Line("complete", <<>>)>>
    ELSE <<Line("banner", <<k>>), Line("text", <<k>>)>>
         \o (IF k < LastSection
             THEN <<Line("prompt", <<k>>), Line("enter", <<k>>)>>
             ELSE <<>>)
         \o C6_Sections(k + 1)

C6_Flow == TaggedIn({"banner", "text", "prompt", "enter", "complete"})

C6_SectionsInOrderGatedByPause ==
    /\ IsPrefix(C6_Flow, C6_Sections(1))
    /\ Len(Tagged("enter")) + stdin = pressed
    /\ Len(Tagged("banner")) = IF pc = "banner" THEN sec - 1 ELSE sec
    /\ pc = "done" => C6_Flow = C6_Sections(1)

C6_Witness ==
    pc = "done" /\ Len(Tagged("banner")) = LastSection /\ Len(Tagged("enter")) = 8

\* C7: from the wait on, debugpy listens on 0.0.0.0:5678; while no client
\* has attached the script is at or before the wait and has printed nothing
\* but section 1's banner and its two first lines; so 'Debugger attached!',
\* every step of sections 2 to 9 and every programmatic breakpoint happen
\* with a client attached.
C7_BlockedUntilAttached ==
    /\ (sec > 1 \/ pc \notin {"banner", "listen"}) => listener = <<"0.0.0.0", 5678>>
    /\ ~attached =>
          /\ sec = 1
          /\ pc \in {"banner", "listen", "wait"}
          /\ IsPrefix(out, <<Line("banner", <<1>>), Line("starting", <<5678>>),
                             Line("text", <<1>>)>>)
          /\ ~paused
    /\ (Tagged("attached") # <<>> \/ Tagged("breakpoint") # <<>>) => attached

C7_Witness ==
    attached /\ paused /\ pc = "order_large" /\ Tagged("attached") # <<>>

\* C8: in calculate_total(250.00, 15, 0.09) the discounted price is 212.50
\* and the unrounded total is 231.625, exactly (1853/8), half way between
\* 231.62 and 231.63; the value returned is 231.62, the neighbour whose last
\* digit is even.
C8_AfterDiscount == sec > 3 \/ (sec = 3 /\ pc \in {"apply_tax", "round", "pause", "input"})

C8_AfterTax == sec > 3 \/ (sec = 3 /\ pc \in {"round", "pause", "input"})

C8_RoundsHalfToEven ==
    /\ C8_AfterDiscount => discounted = FDivInt(2125, 10)
    /\ C8_AfterTax =>
          /\ total = FDivInt(231625, 1000)
          /\ FCmp(total, FDivInt(1853, 8)) = 0
    /\ PastBody(3) =>
          /\ Hundredths(result) = 23162
          /\ Hundredths(result) % 2 = 0
          /\ result \in {Dec2(23162), Dec2(23163)}
          /\ FCmp(result, total) < 0

C8_Witness == sec = 3 /\ pc = "input" /\ total = FDivInt(1853, 8)

\* C9: for every call of process_order, the breakpoint and the 'Large
\* order' warning happen exactly when the subtotal is greater than 500, the
\* breakpoint first, the warning next, both before the order's line; the
\* program is stopped only at that breakpoint; every call prints its line and
\* returns.  In the script's run the only breakpoint is order 1002's
\* (subtotal 1049.93; order 1001's is 65.00), and both calls return
\* subtotal * 1.08.
C9_Subtotal(o) == SumItems(o.items, FZero)

C9_Large(o) == FCmp(C9_Subtotal(o), FFromInt(500)) = 1

C9_Events(o) ==
    (IF C9_Large(o) THEN <<<<"breakpoint", o.id>>, <<"large", o.id>>>> ELSE <<>>)
    \o <<<<"order", o.id>>>>

RECURSIVE C9_Done(_)
C9_Done(k) == IF k = 0 THEN <<>> ELSE C9_Done(k - 1) \o C9_Events(orders[k])

C9_Current ==
    IF pc = "order_large" THEN <<<<"breakpoint", orders[order_idx].id>>>>
    ELSE IF pc = "order_total" /\ C9_Large(orders[order_idx])
    THEN <<<<"breakpoint", orders[order_idx].id>>, <<"large", orders[order_idx].id>>>>
    ELSE <<>>

C9_Trace ==
    LET ls == TaggedIn({"breakpoint", "large", "order"})
    IN  [k \in 1..Len(ls) |-> <<ls[k][1], ls[k][2][1]>>]

C9_BreakpointIffLarge ==
    /\ C9_Trace = C9_Done(order_idx - 1) \o C9_Current
    /\ paused => pc = "order_large"
    /\ Len(returned) = order_idx - 1
    /\ orders = ScriptOrders =>
          /\ \A k \in 1..(order_idx - 1) :
                returned[k] = FMul(C9_Subtotal(orders[k]), Dec2(108))
          /\ order_idx > Len(orders) =>
                /\ Tagged("breakpoint") = <<Line("breakpoint", <<1002>>)>>
                /\ [k \in 1..2 |-> Tagged("order")[k][2][2]] = <<6500, 104993>>
                /\ pc = "pause"

C9_Witness ==
    orders = ScriptOrders /\ order_idx = 2 /\ pc = "order_large" /\ paused

\* C10: each worker's lines are 'Step 1/steps' to 'Step k/steps' for its
\* counter k, once each and in order, then one 'Done!' once it has ended with
\* k = steps (4, 3 and 5 steps: 12 step lines and 3 Done lines in all); the
\* threads are started in the order Downloader, Processor, Uploader, all of
\* them before the first join; and a step that moves one worker's counter
\* changes nothing of another worker.
C10_Lines(w) ==
    [k \in 1..step[w] |-> Line("step", <<k, WorkerSpecs[w].steps>>)]
    \o (IF wpc[w] = "terminated" THEN <<Line("done", <<>>)>> ELSE <<>>)

C10_State ==
    /\ \A w \in Workers :
          /\ wout[w] = C10_Lines(w)
          /\ step[w] <= WorkerSpecs[w].steps
          /\ wpc[w] = "terminated" => step[w] = WorkerSpecs[w].steps
          /\ wpc[w] # "unstarted" <=> w <= Len(threads)
    /\ IsPrefix(threads, <<1, 2, 3>>)
    /\ [w \in Workers |-> WorkerSpecs[w].name] = <<"Downloader", "Processor", "Uploader">>
    /\ (pc = "join_loop" \/ PastBody(8)) => threads = <<1, 2, 3>>
    /\ PastBody(8) =>
          /\ Sum([w \in Workers |-> Len(SelectSeq(wout[w], LAMBDA l : l[1] = "step"))]) = 12
          /\ Sum([w \in Workers |-> Len(SelectSeq(wout[w], LAMBDA l : l[1] = "done"))]) = 3
          /\ step = <<4, 3, 5>>

C10_Step ==
    \A w \in Workers :
        step'[w] # step[w] =>
            /\ step'[w] = step[w] + 1
            /\ \A v \in Workers \ {w} :
                  step'[v] = step[v] /\ wpc'[v] = wpc[v] /\ wout'[v] = wout[v]

C10_WorkersIndependent == [](C10_State) /\ [][C10_Step]_vars

C10_Witness ==
    /\ \A w \in Workers : wpc[w] = "terminated"
    /\ pc = "start_loop"
    /\ step = <<4, 3, 5>>

=============================================================================
